---- MODULE Spec2Model ----
(***************************************************************************)
(* Client side of the local-LLM chat GUI: the Conversation Store (chats,   *)
(* currentChatId), the send guard, the fetch of /stream_chat and the       *)
(* line-by-line decoding of the streamed response.  Two page scripts are   *)
(* modelled: static/app.js (variant "app", multiple chats) and the older   *)
(* single-chat script (variant "legacy").                                  *)
(*                                                                         *)
(* Text is a sequence of one-character strings; the transport carries      *)
(* bytes, ASCII bytes being written as their character and the two-byte    *)
(* character U+00E9 as the bytes "C3" "A9".                                *)
(***************************************************************************)
EXTENDS Integers, Sequences, FiniteSets, TLC

VARIABLES variant, loaded, chats, currentChatId, selectedModel, userInput,
          chatList, chatWindow, sends, alertShown

vars == <<variant, loaded, chats, currentChatId, selectedModel, userInput,
          chatList, chatWindow, sends, alertShown>>

(***************************************************************************)
(* Bounds of the model.                                                    *)
(***************************************************************************)
MaxChats == 2
MaxSends == 2
MaxLines == 3

(***************************************************************************)
(* Program constants.                                                      *)
(***************************************************************************)
\* let currentChatId = "": the empty id, before any chat is created.
NoChatId == 0
\* let selectedModel = null
NULL == "null"
Models == {"m1"}
DataPrefix == <<"d", "a", "t", "a", ":", " ">>
DoneSentinel == <<"[", "D", "O", "N", "E", "]">>
AlertSelectModel == "Please select a model first"
AlertResetFailed == "Failed to reset chat."
ShowRaw == "Show raw output"
HideRaw == "Hide raw output"

(***************************************************************************)
(* String helpers of the JavaScript runtime, as the code uses them.        *)
(***************************************************************************)
\* White space removed by String.prototype.trim.
WhiteSpace == {" ", "\t", "\r", "\n"}

RECURSIVE trimStart(_)
trimStart(s) ==
    IF s # <<>> /\ Head(s) \in WhiteSpace THEN trimStart(Tail(s)) ELSE s

RECURSIVE trimEnd(_)
trimEnd(s) ==
    IF s # <<>> /\ s[Len(s)] \in WhiteSpace
    THEN trimEnd(SubSeq(s, 1, Len(s) - 1)) ELSE s

\* s.trim()
trim(s) == trimEnd(trimStart(s))

\* s.startsWith(p)
startsWith(s, p) == Len(s) >= Len(p) /\ SubSeq(s, 1, Len(p)) = p

\* The least element of a set of positions, 0 for the empty set.
least(S) == IF S = {} THEN 0 ELSE CHOOSE j \in S : \A h \in S : j <= h

\* Index of the first "\n" of s, 0 when there is none.
firstNewline(s) == least({j \in 1..Len(s) : s[j] = "\n"})

\* Where the piece before the line break at nl ends: /\r?\n/ takes a "\r"
\* right before the "\n" into the separator.
pieceEnd(s, nl) == IF nl > 1 /\ s[nl - 1] = "\r" THEN nl - 2 ELSE nl - 1

\* s.split(/\r?\n/): the pieces between line breaks, the last one being what
\* follows the last line break (possibly empty).
RECURSIVE splitLines(_)
splitAt(s, nl) ==
    IF nl = 0 THEN <<s>>
    ELSE <<SubSeq(s, 1, pieceEnd(s, nl))>> \o splitLines(SubSeq(s, nl + 1, Len(s)))
splitLines(s) == splitAt(s, firstNewline(s))

\* s.split(/(\r?\n)/): as above with every separator kept as an element of
\* its own between the pieces.
RECURSIVE splitLinesKeep(_)
splitKeepAt(s, nl) ==
    IF nl = 0 THEN <<s>>
    ELSE <<SubSeq(s, 1, pieceEnd(s, nl)), SubSeq(s, pieceEnd(s, nl) + 1, nl)>>
             \o splitLinesKeep(SubSeq(s, nl + 1, Len(s)))
splitLinesKeep(s) == splitKeepAt(s, firstNewline(s))

\* TextDecoder.decode(value, {stream: true}): bytes to characters, an
\* incomplete multi-byte sequence at the end of the chunk being kept for the
\* next call.  Returns [out, pending].  The lead byte "C3" followed by the
\* continuation byte "A9" is U+00E9; a lead byte followed by anything else,
\* and a continuation byte on its own, decode to U+FFFD.
decodeBytes(b) ==
    LET n == Len(b)
        at == [j \in 1..n |->
                  IF b[j] = "C3"
                  THEN IF j = n THEN "" ELSE IF b[j + 1] = "A9" THEN "E9" ELSE "FFFD"
                  ELSE IF b[j] = "A9"
                  THEN IF j > 1 /\ b[j - 1] = "C3" THEN "" ELSE "FFFD"
                  ELSE b[j]]
    IN  [out |-> SelectSeq(at, LAMBDA c : c # ""),
         pending |-> IF n > 0 /\ b[n] = "C3" THEN <<"C3">> ELSE <<>>]

decode(pending, value) == decodeBytes(pending \o value)

(***************************************************************************)
(* The response body on the wire.  A source line is [text, eol]; a body is *)
(* the UTF-8 encoding of its lines, each followed by its line break (the   *)
(* last line of a body may lack one: eol = <<>>).                          *)
(***************************************************************************)
\* TextEncoder on the serving side: U+00E9 takes two bytes.
RECURSIVE encode(_)
encode(s) ==
    IF s = <<>> THEN <<>>
    ELSE (IF Head(s) = "E9" THEN <<"C3", "A9">> ELSE <<Head(s)>>) \o encode(Tail(s))

RECURSIVE wire(_)
wire(src) ==
    IF src = <<>> THEN <<>>
    ELSE encode(Head(src).text) \o Head(src).eol \o wire(Tail(src))

LF == <<"\n">>
CRLF == <<"\r", "\n">>
dataLine(payload, eol) == [text |-> DataPrefix \o payload, eol |-> eol]
doneLine(eol) == [text |-> DataPrefix \o DoneSentinel, eol |-> eol]
blankLine(eol) == [text |-> <<>>, eol |-> eol]

\* What the serving side sends for one answer: one token, then the sentinel,
\* every event followed by an empty line.
Bodies == {<<dataLine(<<"a">>, LF), blankLine(LF), doneLine(LF), blankLine(LF)>>}

(***************************************************************************)
(* processStreamResponse, the part that is a function of the buffer.       *)
(***************************************************************************)
\* Bug: only the white space at the end is removed.
payloadOfTrimEnd(line) == trimEnd(SubSeq(line, Len(DataPrefix) + 1, Len(line)))

\* line.replace('data: ', '').trim() of a line that starts with 'data: '.
payloadOf(line) == trim(SubSeq(line, Len(DataPrefix) + 1, Len(line)))

\* The for loop over the complete lines of one chunk: the payloads it
\* processes, in order, and whether it left through the [DONE] break.
RECURSIVE scanLines(_)
\* rawText += data + '\n' ... for data, then the rest of the loop (outcome r).
scanPayload(data, r) == [payloads |-> <<data>> \o r.payloads, done |-> r.done]
\* A line that starts with 'data: ', data being its payload.
scanData(data, tail) ==
    IF data = DoneSentinel THEN [payloads |-> <<>>, done |-> TRUE]
    ELSE scanPayload(data, scanLines(tail))
scanLines(lines) ==
    IF lines = <<>> THEN [payloads |-> <<>>, done |-> FALSE]
    ELSE IF trim(Head(lines)) = <<>> THEN scanLines(Tail(lines))
    ELSE IF startsWith(Head(lines), DataPrefix)
    THEN scanData(payloadOf(Head(lines)), Tail(lines))
    ELSE scanLines(Tail(lines))

\* const lines = partialChunk.split(...); partialChunk = lines.pop();
\* [lines, partialChunk] from the pieces of the split (the legacy script
\* filters the kept separators and the blank pieces out).
popLast(v, pieces) ==
    [lines |-> IF v = "app" THEN SubSeq(pieces, 1, Len(pieces) - 1)
               ELSE SelectSeq(SubSeq(pieces, 1, Len(pieces) - 1),
                              LAMBDA l : trim(l) # <<>>),
     partialChunk |-> pieces[Len(pieces)]]

\* Bug: the incomplete last piece is not carried over to the next chunk.
splitBufferNoCarry(v, buf) ==
    [popLast(v, IF v = "app" THEN splitLines(buf) ELSE splitLinesKeep(buf))
        EXCEPT !.partialChunk = <<>>]

\* Bug: the last piece is taken for a complete line.
splitBufferNoPop(v, buf) ==
    [lines |-> popLast(v, (IF v = "app" THEN splitLines(buf) ELSE splitLinesKeep(buf))
                              \o <<<<>>>>).lines,
     partialChunk |-> <<>>]

splitBuffer(v, buf) ==
    popLast(v, IF v = "app" THEN splitLines(buf) ELSE splitLinesKeep(buf))

\* rawText += data + '\n' for each payload, in order.
RECURSIVE appendPayloads(_, _)
appendPayloads(text, payloads) ==
    IF payloads = <<>> THEN text
    ELSE appendPayloads(text \o Head(payloads) \o <<"\n">>, Tail(payloads))

(***************************************************************************)
(* Rendering.  HTML is a sequence whose elements are characters of the     *)
(* text and markup written by the renderer, each tag or character entity   *)
(* being one element ("<code>", "&lt;"): a "<", ">" or "&" element of the  *)
(* HTML is a character that came from the text unescaped.                  *)
(***************************************************************************)
\* The character U+0060 (grave accent), the code delimiter of Markdown.
Backtick == "U+0060"

\* The map of escapeHtml, applied to one element: the five characters it
\* replaces, and what it makes of the entities and tags of an already
\* rendered text (their "&", "<" and ">" are escaped once more).
escapeOne(c) ==
    CASE c = "&" -> "&amp;"
      [] c = "<" -> "&lt;"
      [] c = ">" -> "&gt;"
      [] c = "\"" -> "&quot;"
      [] c = "'" -> "&#039;"
      [] c = "&amp;" -> "&amp;amp;"
      [] c = "&lt;" -> "&amp;lt;"
      [] c = "&gt;" -> "&amp;gt;"
      [] c = "&quot;" -> "&amp;quot;"
      [] c = "&#039;" -> "&amp;#039;"
      [] c = "<h3>" -> "&lt;h3&gt;"
      [] c = "</h3>" -> "&lt;/h3&gt;"
      [] c = "<h2>" -> "&lt;h2&gt;"
      [] c = "</h2>" -> "&lt;/h2&gt;"
      [] c = "<h1>" -> "&lt;h1&gt;"
      [] c = "</h1>" -> "&lt;/h1&gt;"
      [] c = "<strong>" -> "&lt;strong&gt;"
      [] c = "</strong>" -> "&lt;/strong&gt;"
      [] c = "<em>" -> "&lt;em&gt;"
      [] c = "</em>" -> "&lt;/em&gt;"
      [] c = "<code>" -> "&lt;code&gt;"
      [] c = "</code>" -> "&lt;/code&gt;"
      [] OTHER -> c

\* escapeHtml(unsafe): unsafe.replace(/[&<"'>]/g, ...)
escapeHtml(unsafe) == [j \in 1..Len(unsafe) |-> escapeOne(unsafe[j])]

\* What a rule of formatMarkdown puts in the place of a match, code being
\* the text of its group.
wrap(rule, code) ==
    CASE rule = "h3" -> <<"<h3>">> \o code \o <<"</h3>">>
      [] rule = "h2" -> <<"<h2>">> \o code \o <<"</h2>">>
      [] rule = "h1" -> <<"<h1>">> \o code \o <<"</h1>">>
      [] rule = "strong" -> <<"<strong>">> \o code \o <<"</strong>">>
      [] rule = "em" -> <<"<em>">> \o code \o <<"</em>">>
      [] rule = "code" -> <<"<code>">> \o code \o <<"</code>">>
      [] rule = "li" -> <<"<ul><li>">> \o code \o <<"</li></ul>">>
      [] rule = "code-block" ->
             <<"<div class=code-block>", "<button class=copy-btn onclick=copyToClipboard(">>
             \o escapeHtml(code)
             \o <<")>", "Copy Code", "</button>", "<pre><code>">>
             \o escapeHtml(code)
             \o <<"</code></pre>", "</div>">>

\* d stands in s at position p.
matchAt(s, d, p) == p + Len(d) - 1 <= Len(s) /\ SubSeq(s, p, p + Len(d) - 1) = d

\* A rule /d(.*?)d/g: where the lazy group that opens with the d at p is
\* closed (0: nowhere); '.' does not cross a line feed, (.|\n) and [\s\S] do.
closeOf(s, d, p, dotAll) ==
    least({q \in (p + Len(d))..Len(s) :
              /\ matchAt(s, d, q)
              /\ dotAll \/ \A h \in (p + Len(d))..(q - 1) : s[h] # "\n"})

\* The leftmost position where the rule matches (0: nowhere).
firstOpen(s, d, dotAll) ==
    least({p \in 1..Len(s) : matchAt(s, d, p) /\ closeOf(s, d, p, dotAll) # 0})

\* s.replace(/d(.*?)d/g, ...): every match, from left to right.
RECURSIVE replaceDelimited(_, _, _, _)
replaceMatch(s, d, dotAll, rule, p, q) ==
    SubSeq(s, 1, p - 1) \o wrap(rule, SubSeq(s, p + Len(d), q - 1))
        \o replaceDelimited(SubSeq(s, q + Len(d), Len(s)), d, dotAll, rule)
replaceOpen(s, d, dotAll, rule, p) ==
    IF p = 0 THEN s ELSE replaceMatch(s, d, dotAll, rule, p, closeOf(s, d, p, dotAll))
replaceDelimited(s, d, dotAll, rule) ==
    replaceOpen(s, d, dotAll, rule, firstOpen(s, d, dotAll))

\* s.replace(/^d(.*$)/gm, ...): every line that starts with d.
RECURSIVE replaceLines(_, _, _)
lineOut(line, d, rule) ==
    IF startsWith(line, d) THEN wrap(rule, SubSeq(line, Len(d) + 1, Len(line)))
    ELSE line
replaceLinesAt(s, d, rule, nl) ==
    IF nl = 0 THEN lineOut(s, d, rule)
    ELSE lineOut(SubSeq(s, 1, nl - 1), d, rule) \o <<"\n">>
             \o replaceLines(SubSeq(s, nl + 1, Len(s)), d, rule)
replaceLines(s, d, rule) == replaceLinesAt(s, d, rule, firstNewline(s))

\* formatMarkdown(text): the chain of replacements, each applied to the
\* result of the one before.
formatMarkdown(text) ==
    replaceLines(
      replaceDelimited(
        replaceDelimited(
          replaceDelimited(
            replaceDelimited(
              replaceLines(
                replaceLines(
                  replaceLines(text, <<"#", "#", "#", " ">>, "h3"),
                  <<"#", "#", " ">>, "h2"),
                <<"#", " ">>, "h1"),
              <<"*", "*">>, FALSE, "strong"),
            <<"*">>, FALSE, "em"),
          <<Backtick>>, TRUE, "code"),
        <<Backtick, Backtick, Backtick>>, TRUE, "code-block"),
      <<"-", " ">>, "li")

\* marked.parse(text) of the Marked.js library the page loads: the text
\* becomes the content of a paragraph; HTML in the text is left as it is.
markedParse(text) == <<"<p>">> \o text \o <<"</p>">>

(***************************************************************************)
(* State.                                                                  *)
(*   chats          chat id -> [name, messages]; an Exchange is            *)
(*                  [question, answer, sendId], sendId being the number of *)
(*                  the send that pushed it (history, not program state).  *)
(*   sends          one record per accepted sendMessage call, in call      *)
(*                  order: the position of the async function (pc) and its *)
(*                  locals, which are dropped when it returns; src,        *)
(*                  seenDone and err (the message of the error its catch   *)
(*                  block received, "" for none) are history.              *)
(*   chatWindow     the assistant elements of the streams attached to the  *)
(*                  document, in document order: [send, streaming, rawPre, *)
(*                  html, display, label], streaming being the presence of *)
(*                  the cursor span, html the innerHTML of the formatted   *)
(*                  view, display the style.display of the raw container   *)
(*                  and label the text of its toggle button.               *)
(*   chatList       the chats that have an entry in the rendered list.     *)
(*   alertShown     the text of the alert that is open ("" for none); an   *)
(*                  open alert blocks the event loop until it is dismissed.*)
(*   userInput      userInput.value after the last handler.                *)
(***************************************************************************)
ChatIds == 0..MaxChats
Inputs == {<<" ">>, <<" ", "q", " ">>}
UnnamedChat == <<"Unnamed Chat">>
chatName(n) == <<"Chat ", n>>

newSend ==
    [pc |-> "fetch", src |-> <<>>, rest |-> <<>>, decoder |-> <<>>,
     partialChunk |-> <<>>, rawText |-> <<>>, chatIndex |-> 0, seenDone |-> FALSE,
     err |-> ""]

\* The async function has returned (pc "done") or its catch block has run
\* (pc "error"): its locals are gone.
returned(p, pc) ==
    [newSend EXCEPT !.pc = pc, !.src = p.src, !.seenDone = p.seenDone]

\* catch (err): the function returns through its catch block.
caught(p, message) == [returned(p, "error") EXCEPT !.err = message]

Init ==
    /\ variant \in {"app", "legacy"}
    /\ loaded = FALSE
    /\ chats = [c \in {} |-> 0]
    /\ currentChatId = NoChatId
    /\ selectedModel = NULL
    /\ userInput = <<>>
    /\ chatList = {}
    /\ chatWindow = <<>>
    /\ sends = <<>>
    /\ alertShown = ""

\* No handler runs while an alert is open.
idle == alertShown = ""

\* The user dismisses the alert; the handler that raised it returns.
DismissAlert ==
    /\ alertShown # ""
    /\ alertShown' = ""
    /\ UNCHANGED <<variant, loaded, chats, currentChatId, selectedModel,
                   userInput, chatList, chatWindow, sends>>

(***************************************************************************)
(* Chat management (app).                                                  *)
(***************************************************************************)
\* generateUUID(): an id no chat has yet.
generateUUID == CHOOSE id \in 1..MaxChats : id \notin DOMAIN chats

createNewChat(defaultName) ==
    /\ \E id \in 1..MaxChats : id \notin DOMAIN chats
    /\ chats' = chats @@ (generateUUID :> [name |-> defaultName, messages |-> <<>>])
    /\ currentChatId' = generateUUID
    /\ chatList' = DOMAIN chats'
    /\ chatWindow' = <<>>

\* window DOMContentLoaded
DOMContentLoaded ==
    /\ idle
    /\ variant = "app"
    /\ ~loaded
    /\ loaded' = TRUE
    /\ \/ selectedModel' \in Models
       \/ UNCHANGED selectedModel
    /\ IF currentChatId = NoChatId
       THEN createNewChat(chatName(1))
       ELSE UNCHANGED <<chats, currentChatId, chatList, chatWindow>>
    /\ UNCHANGED <<variant, userInput, sends, alertShown>>

\* newChatBtn click
NewChatClick ==
    /\ idle
    /\ variant = "app"
    /\ createNewChat(chatName(Cardinality(DOMAIN chats) + 1))
    /\ UNCHANGED <<variant, loaded, selectedModel, userInput, sends, alertShown>>

\* chatNameSpan.onclick
SelectChat(chatId) ==
    /\ idle
    /\ variant = "app"
    /\ chatId \in chatList
    /\ currentChatId' = chatId
    /\ chatWindow' = <<>>
    /\ UNCHANGED <<variant, loaded, chats, selectedModel, userInput, chatList,
                   sends, alertShown>>

\* modelSelect change (app), selectModel (legacy)
SelectModel(m) ==
    /\ idle
    /\ selectedModel' = m
    /\ UNCHANGED <<variant, loaded, chats, currentChatId, userInput, chatList,
                   chatWindow, sends, alertShown>>

(***************************************************************************)
(* sendMessage.                                                            *)
(***************************************************************************)
\* Bug: the prompt is not checked.
sendRejectedNoModel(prompt, model) == model = NULL

\* The guard: if (!prompt) return; if (!selectedModel) {...; return;} (app),
\* if (!prompt || !selectedModel) {...; return;} (legacy).
sendRejected(prompt, model) == prompt = <<>> \/ model = NULL

\* Bug: every rejected send raises the alert.
sendAlertAlways(v, prompt, model) == AlertSelectModel

\* The alert a rejected send raises, "" for none.
sendAlert(v, prompt, model) ==
    IF v = "app"
    THEN IF prompt = <<>> THEN "" ELSE AlertSelectModel
    ELSE IF model = NULL THEN AlertSelectModel ELSE ""

\* Bug: the message list is replaced by the new Exchange instead of extended.
pushExchangeReplacing(cs, chatId, prompt, sendId) ==
    LET base == IF chatId \in DOMAIN cs THEN cs
                ELSE cs @@ (chatId :> [name |-> UnnamedChat, messages |-> <<>>])
    IN  [base EXCEPT ![chatId].messages =
             <<[question |-> prompt, answer |-> <<>>, sendId |-> sendId]>>]

\* chats after the lazy creation of the active chat and the push.
pushExchange(cs, chatId, prompt, sendId) ==
    LET base == IF chatId \in DOMAIN cs THEN cs
                ELSE cs @@ (chatId :> [name |-> UnnamedChat, messages |-> <<>>])
    IN  [base EXCEPT ![chatId].messages =
             Append(@, [question |-> prompt, answer |-> <<>>, sendId |-> sendId])]

\* createAssistantMessageElements(): the element of send i, with its cursor.
assistantElement(i) ==
    [send |-> i, streaming |-> TRUE, rawPre |-> <<>>, html |-> <<>>,
     display |-> IF variant = "app" THEN "none" ELSE "",
     label |-> ShowRaw]

\* sendBtn click, or Enter without Shift in the textarea, value being what the
\* textarea holds when the handler starts.
sendMessage(value) ==
    LET prompt == trim(value) IN
    /\ idle
    /\ IF sendRejected(prompt, selectedModel)
       THEN /\ alertShown' = sendAlert(variant, prompt, selectedModel)
            /\ userInput' = value
            /\ UNCHANGED <<variant, loaded, chats, currentChatId, selectedModel,
                           chatList, chatWindow, sends>>
       ELSE /\ Len(sends) < MaxSends
            /\ chats' = IF variant = "app"
                        THEN pushExchange(chats, currentChatId, prompt, Len(sends) + 1)
                        ELSE chats
            /\ userInput' = <<>>
            /\ chatWindow' = Append(chatWindow, assistantElement(Len(sends) + 1))
            /\ sends' = Append(sends, newSend)
            /\ UNCHANGED <<variant, loaded, currentChatId, selectedModel, chatList,
                           alertShown>>

\* const errorMsg = "Error: " + err.message (a template literal in the code)
errorMsg(message) == <<"Error: ", message>>

\* Bug: when the active chat has no message, the catch block stores the error
\* in an Exchange of its own.
catchErrorPush(cs, message) ==
    IF variant = "app" /\ currentChatId \in DOMAIN cs
    THEN IF Len(cs[currentChatId].messages) > 0
         THEN [cs EXCEPT ![currentChatId].messages[Len(cs[currentChatId].messages)].answer =
                   errorMsg(message)]
         ELSE [cs EXCEPT ![currentChatId].messages =
                   <<[question |-> <<>>, answer |-> errorMsg(message), sendId |-> 0]>>]
    ELSE cs

\* Bug: the catch block drops the last Exchange of the active chat.
catchErrorPop(cs, message) ==
    IF variant = "app" /\ currentChatId \in DOMAIN cs
                       /\ Len(cs[currentChatId].messages) > 0
    THEN [cs EXCEPT ![currentChatId].messages = SubSeq(@, 1, Len(@) - 1)]
    ELSE cs

\* The catch block of sendMessage: the error goes to the last Exchange of the
\* chat that is active now (app); handleStreamError touches no state (legacy).
catchError(cs, message) ==
    IF variant = "app" /\ currentChatId \in DOMAIN cs
                       /\ Len(cs[currentChatId].messages) > 0
    THEN [cs EXCEPT ![currentChatId].messages[Len(cs[currentChatId].messages)].answer =
              errorMsg(message)]
    ELSE cs

\* document.querySelector('.streaming'): the position in the document of the
\* first element that still has its cursor, 0 when there is none.
firstStreaming(win) == least({j \in 1..Len(win) : win[j].streaming})

\* const cursor = document.querySelector('.streaming'); if (cursor) cursor.remove()
removeAt(win, j) == IF j = 0 THEN win ELSE [win EXCEPT ![j].streaming = FALSE]
removeCursor(win) == removeAt(win, firstStreaming(win))

\* rawPre.textContent = rawText, on the element of send i if it is still in
\* the document.
setRawPre(win, i, text) ==
    [j \in 1..Len(win) |-> IF win[j].send = i THEN [win[j] EXCEPT !.rawPre = text]
                           ELSE win[j]]

\* contentElement.innerHTML = html, on the element of send i if it is still
\* in the document.
setHtml(win, i, html) ==
    [j \in 1..Len(win) |-> IF win[j].send = i THEN [win[j] EXCEPT !.html = html]
                           ELSE win[j]]

\* The catch block on the page: contentElement.innerHTML += '<br><em>' +
\* escapeHtml(errorMsg) + '</em>' (app); handleStreamError adds an element of
\* its own and leaves the assistant element as it is (legacy).
catchHtml(win, i, message) ==
    [j \in 1..Len(win) |->
        IF win[j].send = i /\ variant = "app"
        THEN [win[j] EXCEPT !.html = @ \o <<"<br><em>">> \o escapeHtml(errorMsg(message))
                                       \o <<"</em>">>]
        ELSE win[j]]

\* fetch('/stream_chat') resolves with a 2xx response: processStreamResponse
\* starts and takes chatIndex from the chat that is active now.
FetchOk(i, body) ==
    /\ idle
    /\ sends[i].pc = "fetch"
    /\ sends' = [sends EXCEPT ![i].pc = "read",
                              ![i].src = body,
                              ![i].rest = wire(body),
                              ![i].chatIndex =
                                  IF variant = "app"
                                  THEN Len(chats[currentChatId].messages)
                                  ELSE 0]
    /\ UNCHANGED <<variant, loaded, chats, currentChatId, selectedModel,
                   userInput, chatList, chatWindow, alertShown>>

\* fetch rejects, or resolves with a non-2xx response (throw new Error(statusText)).
FetchFail(i, message) ==
    /\ idle
    /\ sends[i].pc = "fetch"
    /\ sends' = [sends EXCEPT ![i] = caught(@, message)]
    /\ chats' = catchError(chats, message)
    /\ chatWindow' = catchHtml(chatWindow, i, message)
    /\ UNCHANGED <<variant, loaded, currentChatId, selectedModel, userInput,
                   chatList, alertShown>>

\* Whether chats[currentChatId].messages[chatIndex] exists.
targetExists(cs, chatIndex) ==
    /\ currentChatId \in DOMAIN cs
    /\ chatIndex \in 1..Len(cs[currentChatId].messages)

\* The formatted view after the payloads of one chunk: the rendering of the
\* answer of chats[currentChatId].messages[chatIndex] (app), of the escaped
\* rawText (legacy).
showText(win, i, payloads, raw, messages, chatIndex) ==
    IF payloads = <<>> THEN win
    ELSE setHtml(win, i, IF variant = "app" THEN markedParse(messages[chatIndex].answer)
                         ELSE formatMarkdown(escapeHtml(raw)))

\* The body of one pass of the while loop of processStreamResponse, for send
\* i with locals p, the k bytes read, their decoding dec, the split buffer buf
\* and the outcome scan of the for loop.
readStep(i, p, k, dec, buf, scan) ==
    LET \* marked.parse(chats[currentChatId].messages[chatIndex].answer) throws a
        \* TypeError when that Exchange does not exist
        throws == variant = "app" /\ scan.payloads # <<>>
                                  /\ ~targetExists(chats, p.chatIndex)
        \* the payloads that reach rawText: all, or only the first when the
        \* re-render throws
        raw == appendPayloads(p.rawText,
                   IF throws THEN <<scan.payloads[1]>> ELSE scan.payloads)
        win == setRawPre(chatWindow, i, raw)
    IN
    /\ IF throws
       THEN /\ sends' = [sends EXCEPT ![i] = caught(p, "TypeError")]
            /\ chats' = catchError(chats, "TypeError")
            /\ chatWindow' = catchHtml(win, i, "TypeError")
       ELSE /\ sends' = [sends EXCEPT ![i] =
                   [p EXCEPT !.rest = SubSeq(p.rest, k + 1, Len(p.rest)),
                             !.decoder = dec.pending,
                             !.partialChunk = buf.partialChunk,
                             !.rawText = raw,
                             !.seenDone = @ \/ scan.done]]
            /\ chats' = IF variant = "app" /\ scan.payloads # <<>>
                        THEN [chats EXCEPT
                                 ![currentChatId].messages[p.chatIndex].answer =
                                     appendPayloads(@, scan.payloads)]
                        ELSE chats
            /\ chatWindow' = showText(IF scan.done /\ variant = "app"
                                       THEN removeCursor(win) ELSE win,
                                       i, scan.payloads, raw,
                                       chats'[currentChatId].messages, p.chatIndex)

\* reader.read() resolves with the next k bytes of the body.
ReadChunk(i, k) ==
    /\ idle
    /\ sends[i].pc = "read"
    /\ k \in 1..Len(sends[i].rest)
    /\ \E dec \in {decode(sends[i].decoder, SubSeq(sends[i].rest, 1, k))} :
       \E buf \in {splitBuffer(variant, sends[i].partialChunk \o dec.out)} :
       \E scan \in {scanLines(buf.lines)} :
          readStep(i, sends[i], k, dec, buf, scan)
    /\ UNCHANGED <<variant, loaded, currentChatId, selectedModel, userInput,
                   chatList, alertShown>>

\* reader.read() resolves with done: the loop ends, the cursor is removed and
\* sendMessage returns.
ReadEnd(i) ==
    /\ idle
    /\ sends[i].pc = "read"
    /\ sends[i].rest = <<>>
    /\ sends' = [sends EXCEPT ![i] = returned(@, "done")]
    /\ chatWindow' = removeCursor(chatWindow)
    /\ UNCHANGED <<variant, loaded, chats, currentChatId, selectedModel,
                   userInput, chatList, alertShown>>

\* reader.read() rejects (the transport fails in mid-stream).
ReadFail(i, message) ==
    /\ idle
    /\ sends[i].pc = "read"
    /\ sends' = [sends EXCEPT ![i] = caught(@, message)]
    /\ chats' = catchError(chats, message)
    /\ chatWindow' = catchHtml(chatWindow, i, message)
    /\ UNCHANGED <<variant, loaded, currentChatId, selectedModel, userInput,
                   chatList, alertShown>>

(***************************************************************************)
(* The toggle button of the raw output of an assistant message.            *)
(***************************************************************************)
\* The raw container is not displayed: style.display is 'none', or is not
\* set and the style sheet of the page applies.
rawHidden(el) == el.display \in {"none", ""}

\* The click listener of toggleBtn (app), toggleRawOutput (legacy).
toggleRawOutput(v, el) ==
    IF v = "app"
    THEN IF el.display = "none" \/ el.display = ""
         THEN [el EXCEPT !.display = "block", !.label = HideRaw]
         ELSE [el EXCEPT !.display = "none", !.label = ShowRaw]
    ELSE IF el.display = "none"
         THEN [el EXCEPT !.display = "block", !.label = HideRaw]
         ELSE [el EXCEPT !.display = "none", !.label = ShowRaw]

ToggleRaw(j) ==
    /\ idle
    /\ j \in 1..Len(chatWindow)
    /\ chatWindow' = [chatWindow EXCEPT ![j] = toggleRawOutput(variant, @)]
    /\ UNCHANGED <<variant, loaded, chats, currentChatId, selectedModel,
                   userInput, chatList, sends, alertShown>>

(***************************************************************************)
(* resetBtn.onclick (app).  The handler touches no state before its await  *)
(* of fetch('/reset_chat'), so its step is taken when the answer arrives;  *)
(* the button clicked belongs to a chat of the rendered list, and chats    *)
(* never leave that list.                                                  *)
(***************************************************************************)
\* Bug: the active chat is cleared instead of the chat of the button.
ResetOkActive(chatId) ==
    /\ idle
    /\ variant = "app"
    /\ chatId \in chatList
    /\ chats' = [chats EXCEPT ![currentChatId].messages = <<>>]
    /\ chatWindow' = <<>>
    /\ UNCHANGED <<variant, loaded, currentChatId, selectedModel, userInput,
                   chatList, sends, alertShown>>

\* response.ok: chats[chatId].messages = []; renderMessages()
ResetOk(chatId) ==
    /\ idle
    /\ variant = "app"
    /\ chatId \in chatList
    /\ chats' = [chats EXCEPT ![chatId].messages = <<>>]
    /\ chatWindow' = <<>>
    /\ UNCHANGED <<variant, loaded, currentChatId, selectedModel, userInput,
                   chatList, sends, alertShown>>

\* Bug: the chat is cleared before the answer is looked at.
ResetFailClearing(chatId) ==
    /\ idle
    /\ variant = "app"
    /\ chatId \in chatList
    /\ chats' = [chats EXCEPT ![chatId].messages = <<>>]
    /\ alertShown' = AlertResetFailed
    /\ UNCHANGED <<variant, loaded, currentChatId, selectedModel,
                   userInput, chatList, chatWindow, sends>>

\* A non-2xx answer, or fetch or response.json() throws: an alert, no change.
ResetFail(chatId) ==
    /\ idle
    /\ variant = "app"
    /\ chatId \in chatList
    /\ alertShown' = AlertResetFailed
    /\ UNCHANGED <<variant, loaded, chats, currentChatId, selectedModel,
                   userInput, chatList, chatWindow, sends>>

(***************************************************************************)
(* The page: every handler, in any order.  The serving side delivers one   *)
(* event (its line and the empty line after it) per read.                  *)
(***************************************************************************)
\* Length of the first event of the remaining bytes.
eventEnd(rest, k) == IF k = 0 THEN Len(rest) ELSE k
eventCut(rest) ==
    eventEnd(rest, least({k \in 2..Len(rest) : rest[k] = "\n" /\ rest[k - 1] = "\n"}))

FailMessages == {"Internal Server Error"}

Next ==
    \/ DismissAlert
    \/ DOMContentLoaded
    \/ NewChatClick
    \/ \E c \in ChatIds : SelectChat(c)
    \/ \E m \in Models : SelectModel(m)
    \/ \E v \in Inputs : sendMessage(v)
    \/ \E i \in 1..Len(sends), b \in Bodies : FetchOk(i, b)
    \/ \E i \in 1..Len(sends), m \in FailMessages : FetchFail(i, m)
    \/ \E i \in 1..Len(sends) : ReadChunk(i, eventCut(sends[i].rest))
    \/ \E i \in 1..Len(sends) : ReadEnd(i)
    \/ \E i \in 1..Len(sends), m \in FailMessages : ReadFail(i, m)
    \/ \E c \in ChatIds : ResetOk(c)
    \/ \E c \in ChatIds : ResetFail(c)

Spec == Init /\ [][Next]_vars

(***************************************************************************)
(* One stream on its own: a send has been accepted and answered 2xx, the   *)
(* body is any sequence of at most MaxLines lines, and the transport cuts  *)
(* it into chunks at any byte.                                             *)
(***************************************************************************)
Payloads == {<<"a">>, <<" ", "E9", " ">>}
commentLine == <<":">>
LineTexts ==
    {DataPrefix \o p : p \in Payloads} \cup {DataPrefix \o DoneSentinel, <<>>, commentLine}

\* The lines texts, each ended by eol, the last one only if closed.
bodyOf(texts, eol, closed) ==
    [j \in 1..Len(texts) |->
        [text |-> texts[j],
         eol |-> IF j = Len(texts) /\ ~closed THEN <<>> ELSE eol]]

StreamBodies ==
    UNION {{bodyOf(texts, eol, closed) :
               texts \in [1..n -> LineTexts], eol \in {LF, CRLF}, closed \in BOOLEAN} :
           n \in 1..MaxLines}

InitStream ==
    /\ variant \in {"app", "legacy"}
    /\ loaded = TRUE
    /\ chats = IF variant = "app"
               THEN pushExchange((1 :> [name |-> chatName(1), messages |-> <<>>]),
                                 1, <<"q">>, 1)
               ELSE [c \in {} |-> 0]
    /\ currentChatId = IF variant = "app" THEN 1 ELSE NoChatId
    /\ selectedModel \in Models
    /\ userInput = <<>>
    /\ chatList = IF variant = "app" THEN {1} ELSE {}
    /\ chatWindow = <<assistantElement(1)>>
    /\ \E body \in StreamBodies :
          sends = <<[newSend EXCEPT !.pc = "read", !.src = body, !.rest = wire(body),
                                    !.chatIndex = IF variant = "app" THEN 1 ELSE 0]>>
    /\ alertShown = ""

NextStream ==
    \/ \E k \in 1..Len(sends[1].rest) : ReadChunk(1, k)
    \/ ReadEnd(1)

SpecStream == InitStream /\ [][NextStream]_vars

(***************************************************************************)
(* One stream whose payloads carry HTML and Markdown: at most MaxLines - 1 *)
(* data lines and the sentinel, delivered in chunks that end at a line     *)
(* end.                                                                    *)
(***************************************************************************)
FenceText ==
    <<Backtick, Backtick, Backtick, "p", "r", "i", "n", "t", "(", "1", ")",
      Backtick, Backtick, Backtick>>
RenderPayloads ==
    {FenceText, <<"<", "b", ">", "&">>, <<"*", "*", "b", "*", "*">>, <<"#", " ", "h">>}

RenderBodies ==
    UNION {{bodyOf([j \in 1..(n + 1) |->
                       IF j <= n THEN DataPrefix \o texts[j]
                       ELSE DataPrefix \o DoneSentinel], LF, TRUE) :
               texts \in [1..n -> RenderPayloads]} :
           n \in 1..(MaxLines - 1)}

InitRender ==
    /\ variant \in {"app", "legacy"}
    /\ loaded = TRUE
    /\ chats = IF variant = "app"
               THEN pushExchange((1 :> [name |-> chatName(1), messages |-> <<>>]),
                                 1, <<"q">>, 1)
               ELSE [c \in {} |-> 0]
    /\ currentChatId = IF variant = "app" THEN 1 ELSE NoChatId
    /\ selectedModel \in Models
    /\ userInput = <<>>
    /\ chatList = IF variant = "app" THEN {1} ELSE {}
    /\ chatWindow = <<assistantElement(1)>>
    /\ \E body \in RenderBodies :
          sends = <<[newSend EXCEPT !.pc = "read", !.src = body, !.rest = wire(body),
                                    !.chatIndex = IF variant = "app" THEN 1 ELSE 0]>>
    /\ alertShown = ""

\* The positions of the line ends of the remaining bytes.
lineCuts(rest) == {k \in 1..Len(rest) : rest[k] = "\n"}

NextRender ==
    \/ \E k \in lineCuts(sends[1].rest) : ReadChunk(1, k)
    \/ ReadEnd(1)

SpecRender == InitRender /\ [][NextRender]_vars

(***************************************************************************)
(* The assistant messages of the page and their raw output toggles: sends  *)
(* create them, renderMessages removes them, the user clicks the toggles.  *)
(***************************************************************************)
NextToggle ==
    \/ DismissAlert
    \/ DOMContentLoaded
    \/ NewChatClick
    \/ \E m \in Models : SelectModel(m)
    \/ \E v \in Inputs : sendMessage(v)
    \/ \E j \in 1..MaxSends : ToggleRaw(j)

SpecToggle == Init /\ [][NextToggle]_vars

(***************************************************************************)
(* Vocabulary of the properties.                                           *)
(***************************************************************************)
isDone(line) == line.text = DataPrefix \o DoneSentinel
isData(line) == startsWith(line.text, DataPrefix) /\ ~isDone(line)
isBlank(line) == line.text = <<>>
\* What follows 'data: ' on a data line, as sent.
sentPayload(line) == SubSeq(line.text, Len(DataPrefix) + 1, Len(line.text))

\* N data lines followed by a [DONE] line, every line ended by a line break;
\* empty lines (the framing of events) may stand between them and at the end.
wellFormed(src) ==
    /\ \A j \in 1..Len(src) : src[j].eol # <<>>
    /\ \E d \in 1..Len(src) :
          /\ isDone(src[d])
          /\ \A j \in 1..(d - 1) : isData(src[j]) \/ isBlank(src[j])
          /\ \A j \in (d + 1)..Len(src) : isBlank(src[j])

\* The payloads of the data lines of a body, as sent, in order.
sentPayloads(src) == [j \in 1..Len(SelectSeq(src, isData)) |->
                         sentPayload(SelectSeq(src, isData)[j])]

\* The Exchange pushed by send i, as a set of [chat, index] places (empty
\* after a reset of its chat).
placesOf(i) ==
    {pl \in [chat : DOMAIN chats, index : 1..MaxSends] :
        /\ pl.index <= Len(chats[pl.chat].messages)
        /\ chats[pl.chat].messages[pl.index].sendId = i}

\* The text accumulated for the stream of the single send of SpecStream: the
\* answer of its Exchange (app), the raw text shown (legacy).
streamText ==
    IF variant = "app" THEN chats[1].messages[1].answer ELSE chatWindow[1].rawPre

\* The payloads processed so far, read back from the text shown in rawPre
\* (each processed payload is followed by one "\n" there).
processed == SubSeq(splitLines(chatWindow[1].rawPre), 1,
                    Len(splitLines(chatWindow[1].rawPre)) - 1)

(***************************************************************************)
(* C1.  A body of N data lines followed by a [DONE] line yields exactly N  *)
(* payloads, in the order sent, however the transport cuts it into chunks  *)
(* (in mid-line, inside 'data: ', between "\r" and "\n", inside a          *)
(* multi-byte character): when the stream has ended, the payloads          *)
(* processed are the N payloads sent, each trimmed, in order.              *)
(***************************************************************************)
C1_ChunkBoundaryIndependence ==
    (sends[1].pc = "done" /\ wellFormed(sends[1].src)) =>
        /\ Len(processed) = Len(sentPayloads(sends[1].src))
        /\ \A j \in 1..Len(processed) :
              processed[j] = trim(sentPayloads(sends[1].src)[j])

\* Two different payloads and the sentinel, CRLF line ends, all processed.
C1_Witness ==
    /\ sends[1].pc = "done"
    /\ wellFormed(sends[1].src)
    /\ sends[1].src[1].eol = CRLF
    /\ Len(sentPayloads(sends[1].src)) = 2
    /\ sentPayloads(sends[1].src)[1] # sentPayloads(sends[1].src)[2]
    /\ Len(processed) = 2

(***************************************************************************)
(* C2.  Once the payload [DONE] has been seen on a stream, no later data   *)
(* line of that stream is processed: the raw text of the stream does not   *)
(* change any more while it is read.                                       *)
(***************************************************************************)
C2_NoPayloadAfterDone ==
    [][\A i \in 1..Len(sends) :
          (sends[i].seenDone /\ sends'[i].pc = "read") =>
              sends'[i].rawText = sends[i].rawText]_vars

(***************************************************************************)
(* C3.  As claimed: after a stream of payload lines followed by [DONE] has *)
(* ended, the accumulated text is the concatenation of the payloads with   *)
(* only their trailing white space removed and nothing between them.       *)
(***************************************************************************)
RECURSIVE concatTrimEnd(_)
concatTrimEnd(payloads) ==
    IF payloads = <<>> THEN <<>>
    ELSE trimEnd(Head(payloads)) \o concatTrimEnd(Tail(payloads))

C3_AnswerIsConcatenation ==
    (sends[1].pc = "done" /\ wellFormed(sends[1].src)) =>
        streamText = concatTrimEnd(sentPayloads(sends[1].src))

(***************************************************************************)
(* C3, amended.  After a stream of payload lines followed by [DONE] has    *)
(* ended, the accumulated text is the concatenation, in arrival order, of  *)
(* the payloads, each with the white space at both ends removed and each   *)
(* followed by a line feed.                                                *)
(***************************************************************************)
RECURSIVE concatTrimmedLines(_)
concatTrimmedLines(payloads) ==
    IF payloads = <<>> THEN <<>>
    ELSE trimEnd(trimStart(Head(payloads))) \o <<"\n">> \o concatTrimmedLines(Tail(payloads))

C3_AnswerIsTrimmedLines ==
    (sends[1].pc = "done" /\ wellFormed(sends[1].src)) =>
        /\ streamText = concatTrimmedLines(sentPayloads(sends[1].src))
        /\ chatWindow[1].rawPre = concatTrimmedLines(sentPayloads(sends[1].src))

\* 'a' then ' E9 ' then [DONE]: the text is "a\nE9\n".
C3_Witness ==
    /\ sends[1].pc = "done"
    /\ wellFormed(sends[1].src)
    /\ sentPayloads(sends[1].src) = <<(<<"a">>), (<<" ", "E9", " ">>)>>
    /\ streamText = <<"a", "\n", "E9", "\n">>

(***************************************************************************)
(* Vocabulary of the properties of the page.                               *)
(***************************************************************************)
\* The send guard as the specification states it.
guardFails(value) == selectedModel = NULL \/ trim(value) = <<>>
\* The Exchanges of a message list without their answers.
RECURSIVE identities(_)
identities(messages) ==
    IF messages = <<>> THEN <<>>
    ELSE <<[sendId |-> Head(messages).sendId, question |-> Head(messages).question]>>
             \o identities(Tail(messages))
isPrefix(a, b) == Len(a) <= Len(b) /\ SubSeq(b, 1, Len(a)) = a
\* The stream of send i has been started and has not reached [DONE],
\* end-of-stream or failure.
inFlight(i) == sends[i].pc \in {"fetch", "read"} /\ ~sends[i].seenDone
\* The stream of send i has signalled completion.
completed(i) == sends[i].seenDone \/ sends[i].pc = "done"

(***************************************************************************)
(* C4.  A send invoked when no model is selected or the trimmed prompt is  *)
(* empty changes nothing: no request is issued, no Exchange is appended,   *)
(* every chat and the active chat pointer are as before.                   *)
(***************************************************************************)
C4_RejectedSendChangesNothing ==
    [][\A value \in Inputs :
          (guardFails(value) /\ sendMessage(value)) =>
              UNCHANGED <<chats, currentChatId, sends, chatWindow, chatList,
                          selectedModel>>]_vars

\* A send has been rejected with the alert while chats exist.
C4_Witness ==
    /\ alertShown = AlertSelectModel
    /\ DOMAIN chats # {}
    /\ userInput = <<" ", "q", " ">>

C6_AcceptedSendAppendsOne ==
    [][\A value \in Inputs :
          (variant = "app" /\ ~guardFails(value) /\ sendMessage(value)) =>
              /\ currentChatId' = currentChatId
              /\ DOMAIN chats' = DOMAIN chats \cup {currentChatId}
              /\ \A c \in DOMAIN chats \ {currentChatId} : chats'[c] = chats[c]
              /\ Len(chats'[currentChatId].messages) =
                     (IF currentChatId \in DOMAIN chats
                      THEN Len(chats[currentChatId].messages) ELSE 0) + 1
              /\ currentChatId \in DOMAIN chats =>
                     /\ chats'[currentChatId].name = chats[currentChatId].name
                     /\ isPrefix(chats[currentChatId].messages,
                                 chats'[currentChatId].messages)
              /\ LET last == chats'[currentChatId].messages[
                                 Len(chats'[currentChatId].messages)]
                 IN  last.question = trim(value) /\ last.answer = <<>>]_vars

\* A second Exchange has been appended to a chat, and the chat of the empty
\* id has been created by a send.
C6_Witness ==
    /\ NoChatId \in DOMAIN chats
    /\ \E c \in DOMAIN chats : Len(chats[c].messages) = 2

(***************************************************************************)
(* C7.  When the /stream_chat request of a send fails, the answer of the   *)
(* Exchange appended by that send becomes an error string 'Error: ...',    *)
(* and no chat loses a message, whatever happened while the request was    *)
(* pending.                                                                *)
(***************************************************************************)
C7_FailureMarksOwnExchange ==
    [][\A i \in 1..Len(sends) :
          (variant = "app" /\ sends[i].pc = "fetch" /\ sends'[i].pc = "error") =>
              /\ \A pl \in placesOf(i) :
                    /\ pl.index <= Len(chats'[pl.chat].messages)
                    /\ chats'[pl.chat].messages[pl.index].answer # <<>>
                    /\ chats'[pl.chat].messages[pl.index].answer[1] = "Error: "
              /\ \A c \in DOMAIN chats :
                    Len(chats'[c].messages) >= Len(chats[c].messages)]_vars

(***************************************************************************)
(* C8.  An Exchange whose stream has signalled completion ([DONE] or       *)
(* end-of-stream) is immutable: as long as it is in its chat (no reset),   *)
(* its question and answer do not change.                                  *)
(***************************************************************************)
C8_CompletedExchangeImmutable ==
    [][\A i \in 1..Len(sends) :
          completed(i) =>
              \A pl \in placesOf(i) :
                  pl.index <= Len(chats'[pl.chat].messages) =>
                      chats'[pl.chat].messages[pl.index] =
                          chats[pl.chat].messages[pl.index]]_vars

(***************************************************************************)
(* C9.  Each chat has at most one Exchange in flight.                      *)
(***************************************************************************)
C9_OneInFlightPerChat ==
    \A c \in DOMAIN chats :
        Cardinality({j \in 1..Len(chats[c].messages) :
                        inFlight(chats[c].messages[j].sendId)}) <= 1

(***************************************************************************)
(* C10.  In every chat the messages stand in the order of the accepted     *)
(* sends that created them, and a step either keeps the Exchanges of a     *)
(* chat and appends at the end, or is the reset of that chat.              *)
(***************************************************************************)
C10_AppendOnlyInSendOrder ==
    [][/\ DOMAIN chats \subseteq DOMAIN chats'
       /\ \A c \in DOMAIN chats' :
             \A j, h \in 1..Len(chats'[c].messages) :
                 j < h => chats'[c].messages[j].sendId < chats'[c].messages[h].sendId
       /\ \A c \in DOMAIN chats :
             \/ isPrefix(identities(chats[c].messages), identities(chats'[c].messages))
             \/ ResetOk(c) /\ chats'[c].messages = <<>>]_vars

\* A chat holds two Exchanges, the second one with an error as its answer.
C10_Witness ==
    \E c \in DOMAIN chats :
        /\ Len(chats[c].messages) = 2
        /\ chats[c].messages[2].answer # <<>>
        /\ chats[c].messages[2].answer[1] = "Error: "

(***************************************************************************)
(* C11.  A reset of chat C that the server accepts empties the messages of *)
(* C and keeps its id and name; the active chat pointer and the name and   *)
(* messages of every other chat are unchanged.                             *)
(***************************************************************************)
C11_ResetFrame ==
    [][\A c \in ChatIds :
          ResetOk(c) =>
              /\ DOMAIN chats' = DOMAIN chats
              /\ chats'[c].messages = <<>>
              /\ chats'[c].name = chats[c].name
              /\ currentChatId' = currentChatId
              /\ \A o \in DOMAIN chats \ {c} : chats'[o] = chats[o]]_vars

\* A chat has been reset (the Exchange of a send is in no chat any more)
\* while another chat keeps its message.
C11_Witness ==
    /\ variant = "app"
    /\ \E i \in 1..Len(sends) : placesOf(i) = {}
    /\ \E c, o \in DOMAIN chats :
          /\ chats[c].messages = <<>>
          /\ chats[c].name = chatName(1)
          /\ chats[o].messages # <<>>

\* The stream of send i has reached a terminal transition.
terminal(i) == sends[i].seenDone \/ sends[i].pc \in {"done", "error"}

(***************************************************************************)
(* C12.  Once a stream has reached a terminal transition ([DONE], end of   *)
(* stream, or a failure of the request or of a read), the assistant        *)
(* message created for it shows no streaming indicator.                    *)
(***************************************************************************)
C12_IndicatorRemovedAtEnd ==
    \A j \in 1..Len(chatWindow) :
        terminal(chatWindow[j].send) => ~chatWindow[j].streaming

(***************************************************************************)
(* C13.  Once a [DONE] payload has been processed the send has completed:  *)
(* the processing of the stream has returned and waits for no further      *)
(* read.                                                                   *)
(***************************************************************************)
C13_DoneCompletesSend ==
    \A i \in 1..Len(sends) : sends[i].seenDone => sends[i].pc = "done"

(***************************************************************************)
(* C14.  formatMarkdown turns a triple-backtick fence into a fenced code   *)
(* region: when the text of an assistant message of the legacy page is the *)
(* fence around print(1), its formatted view holds a 'code-block' region.  *)
(***************************************************************************)
C14_FenceRendersCodeBlock ==
    \A j \in 1..Len(chatWindow) :
        (variant = "legacy" /\ chatWindow[j].rawPre = FenceText \o <<"\n">>) =>
            \E h \in 1..Len(chatWindow[j].html) :
                chatWindow[j].html[h] = "<div class=code-block>"

(***************************************************************************)
(* C15.  No '<', '>', '&' or quote of the text of a message reaches its    *)
(* formatted view unescaped.                                               *)
(***************************************************************************)
C15_RenderedTextIsEscaped ==
    \A j \in 1..Len(chatWindow) :
        \A h \in 1..Len(chatWindow[j].html) :
            chatWindow[j].html[h] \notin {"<", ">", "&", "\"", "'"}

(***************************************************************************)
(* C16.  The raw output of an assistant message starts hidden, every click *)
(* on its toggle flips it between hidden and shown, and the label of the   *)
(* toggle is 'Show raw output' exactly when it is hidden and 'Hide raw     *)
(* output' exactly when it is shown.                                       *)
(***************************************************************************)
C16_RawToggleFlips ==
    [][/\ \A j \in 1..Len(chatWindow) :
             ToggleRaw(j) => rawHidden(chatWindow'[j]) = ~rawHidden(chatWindow[j])
       /\ \A j \in 1..Len(chatWindow') :
             /\ chatWindow'[j].label = ShowRaw <=> rawHidden(chatWindow'[j])
             /\ chatWindow'[j].label = HideRaw <=> ~rawHidden(chatWindow'[j])
       /\ Len(chatWindow') > Len(chatWindow) =>
             rawHidden(chatWindow'[Len(chatWindow')])]_vars

\* The step appends text, decoded from the stream of send i, to what that
\* stream has accumulated.
grows(i) ==
    /\ sends[i].pc = "read"
    /\ sends'[i].pc = "read"
    /\ Len(sends'[i].rawText) > Len(sends[i].rawText)
    /\ isPrefix(sends[i].rawText, sends'[i].rawText)

\* The text appended by such a step.
fragment(i) ==
    SubSeq(sends'[i].rawText, Len(sends[i].rawText) + 1, Len(sends'[i].rawText))

(***************************************************************************)
(* C17.  Every text fragment decoded from a stream is appended to the      *)
(* answer of the Exchange pushed by the send that opened the stream, and   *)
(* to no other Exchange, whatever chat selections, chat creations and      *)
(* other sends happened meanwhile.                                         *)
(***************************************************************************)
C17_FragmentsGoToOwnExchange ==
    [][\A i \in 1..Len(sends) :
          (variant = "app" /\ grows(i)) =>
              \A c \in DOMAIN chats : \A j \in 1..Len(chats[c].messages) :
                  chats'[c].messages[j].answer =
                      IF chats[c].messages[j].sendId = i
                      THEN chats[c].messages[j].answer \o fragment(i)
                      ELSE chats[c].messages[j].answer]_vars

\* What the page renders of a text.
rendering(text) ==
    IF variant = "app" THEN markedParse(text) ELSE formatMarkdown(escapeHtml(text))

(***************************************************************************)
(* C18.  After each processed payload of a stream, the formatted view of   *)
(* the assistant message of that stream is the rendering of the text shown *)
(* in its raw view, which is all the text accumulated from the stream.     *)
(***************************************************************************)
C18_FormattedViewShowsRawText ==
    [][\A i \in 1..Len(sends) :
          grows(i) =>
              \A j \in 1..Len(chatWindow') :
                  chatWindow'[j].send = i =>
                      /\ chatWindow'[j].rawPre = sends'[i].rawText
                      /\ chatWindow'[j].html = rendering(chatWindow'[j].rawPre)]_vars

(***************************************************************************)
(* C19.  A reset of chat C that fails leaves every chat and the active     *)
(* chat pointer unchanged and shows an alert; a chat loses messages only   *)
(* in a step that is its accepted reset.                                   *)
(***************************************************************************)
C19_FailedResetChangesNothing ==
    [][/\ \A c \in ChatIds :
             ResetFail(c) => /\ chats' = chats
                             /\ currentChatId' = currentChatId
                             /\ alertShown' # ""
       /\ \A c \in DOMAIN chats :
             Len(chats'[c].messages) < Len(chats[c].messages) => ResetOk(c)]_vars

\* A reset has failed: the alert is open and the chats hold two messages.
C19_Witness ==
    /\ alertShown = AlertResetFailed
    /\ \E c \in DOMAIN chats : Len(chats[c].messages) = MaxSends

\* The lines of a body that are ended by a line break, when its last line is
\* not.
terminated(src) == SubSeq(src, 1, Len(src) - 1)

(***************************************************************************)
(* C20.  At the end of the stream the partial-line buffer is discarded: a  *)
(* last line that is not ended by a line break yields no payload and is    *)
(* not taken for [DONE].  When the stream has ended, no more payloads have *)
(* been processed than there are data lines among the terminated lines,    *)
(* and if no terminated line is [DONE], the payloads processed are those   *)
(* of the terminated data lines and no [DONE] has been seen.               *)
(***************************************************************************)
C20_UnterminatedLineDiscarded ==
    (sends[1].pc = "done" /\ sends[1].src[Len(sends[1].src)].eol = <<>>) =>
        /\ Len(processed) <= Len(sentPayloads(terminated(sends[1].src)))
        /\ (\A j \in 1..(Len(sends[1].src) - 1) : ~isDone(sends[1].src[j])) =>
               /\ ~sends[1].seenDone
               /\ Len(processed) = Len(sentPayloads(terminated(sends[1].src)))
               /\ \A j \in 1..Len(processed) :
                     processed[j] = trim(sentPayloads(terminated(sends[1].src))[j])

\* A stream of a terminated data line and an unterminated [DONE] line has
\* ended: one payload, no [DONE].
C20_Witness ==
    /\ sends[1].pc = "done"
    /\ Len(sends[1].src) = 2
    /\ isData(sends[1].src[1])
    /\ isDone(sends[1].src[2])
    /\ sends[1].src[2].eol = <<>>
    /\ Len(processed) = 1
    /\ ~sends[1].seenDone

(***************************************************************************)
(* C21.  A chat without messages (after its reset, in particular) stays    *)
(* without messages until the next accepted send to it, even when a stream *)
(* for it was in flight at the reset: a later chunk of that stream adds no *)
(* Exchange and no text to it, the TypeError it raises is caught by        *)
(* sendMessage, which stores no error in the chat, and no alert is open    *)
(* afterwards (the handlers of the page wait for nothing else).            *)
(***************************************************************************)
C21_ResetChatStaysEmpty ==
    [][/\ \A c \in DOMAIN chats :
             chats[c].messages = <<>> =>
                 \/ chats'[c] = chats[c]
                 \/ /\ \E value \in Inputs : ~guardFails(value) /\ sendMessage(value)
                    /\ currentChatId = c
                    /\ Len(chats'[c].messages) = 1
                    /\ chats'[c].messages[1].answer = <<>>
       /\ \A i \in 1..Len(sends) :
             (variant = "app" /\ sends[i].pc = "read" /\ placesOf(i) = {}
                              /\ sends'[i].pc # "read") =>
                 /\ sends'[i].pc \in {"done", "error"}
                 /\ alertShown' = ""
                 /\ \A c \in DOMAIN chats :
                       chats[c].messages = <<>> => chats'[c] = chats[c]]_vars

\* The only chat was reset while the stream of the only send was in flight,
\* a later chunk raised the TypeError, and the chat is empty.
C21_Witness ==
    /\ variant = "app"
    /\ loaded
    /\ Cardinality(DOMAIN chats) = 1
    /\ Len(sends) = 1
    /\ sends[1].err = "TypeError"
    /\ \A c \in DOMAIN chats : chats[c].messages = <<>>
    /\ alertShown = ""

(***************************************************************************)
(* C22.  A streaming indicator is removed only from the assistant message  *)
(* whose own stream has reached a terminal transition: a message whose     *)
(* stream is still pending shows its indicator.                            *)
(***************************************************************************)
C22_IndicatorRemovedFromOwnMessageOnly ==
    \A j \in 1..Len(chatWindow) :
        ~chatWindow[j].streaming => terminal(chatWindow[j].send)

====
